---------------------------- MODULE Spec2Model ----------------------------
(***************************************************************************)
(* A model of squashfs-util (src/main.go): the superblock check of main,   *)
(* the metadata block readers, the directory table decoders and the        *)
(* recursive tree walk.                                                    *)
(*                                                                         *)
(* Representation.  A byte buffer or an image is a sequence of numbers in  *)
(* 0..255; Go's 0-based index i is element i+1.  A uint16 is a number in   *)
(* 0..65535.  A uint32 is a tuple <<l0, l1>> and a uint64/int64 a tuple    *)
(* <<l0, l1, l2, l3>> of 16-bit limbs, least significant first, so that    *)
(* arithmetic keeps the width the Go types give it (TLC's own integers     *)
(* stop at 2^31 - 1).  A string (a path, a name) is a sequence of byte     *)
(* values: 47 is "/", 46 is ".", 97.. are "a"..                            *)
(***************************************************************************)
EXTENDS Integers, Sequences, FiniteSets, TLC

VARIABLES
    component,   \* which part of the program runs in this behaviour
    \* main: the superblock check
    sbImage,     \* the image file's bytes
    sbPc,        \* where main is: "start", "read", "magicOk", "logOk",
                 \* "accepted", or stopped by log.Fatalf: "badRead",
                 \* "badMagic", "badLog"
    sbFields,    \* the fields decoded so far, by name
    \* readMetadataBlock / readMetadata
    mBlocks,     \* the metadata blocks the image was written from
    mImage,      \* the image bytes
    mCall,       \* the last call and its arguments
    mRes,        \* what the last call returned
    \* parseDirectoryEntry / parseDirectory
    dSrc,        \* what the buffer was written from
    dBuf,        \* the buffer handed to the decoder
    dCall,       \* the last call and its arguments
    dRes,        \* what the last call returned
    \* walkTree
    wCase,       \* the name of the image walked
    wImage,      \* the image bytes
    wTables,     \* inodeTable and directoryTable, as main passes them
    wStack,      \* the call stack of walkTree, innermost frame last
    wStatus,     \* "running", "done", "fatal", "panic"
    wRet,        \* the list the outermost call returned
    wReads       \* one record per readInodeHeader call made so far

sbVars == <<sbImage, sbPc, sbFields>>
mVars  == <<mBlocks, mImage, mCall, mRes>>
dVars  == <<dSrc, dBuf, dCall, dRes>>
wVars  == <<wCase, wImage, wTables, wStack, wStatus, wRet, wReads>>
vars   == <<component, sbVars, mVars, dVars, wVars>>

-----------------------------------------------------------------------------
(* Program constants, src/main.go lines 14-25.                             *)

superblockSize == 96
basicDirectory == 1
extendedDirectory == 8
inodeHeaderSize == 16
maxDirEntries == 256
dirHeaderSize == 12
dirEntryMinSize == 8
dirNameMaxSize == 256
metadataSize == 8192
\* 0x73717368 as a uint32: 0x7368 low, 0x7371 high
magicByte == <<29544, 29553>>

-----------------------------------------------------------------------------
(* Fixed-width integers.                                                   *)

Zero32 == <<0, 0>>
Zero64 == <<0, 0, 0, 0>>

\* a number below 2^31 as a uint32 / uint64
U32(n) == <<n % 65536, n \div 65536>>
U64(n) == <<n % 65536, n \div 65536, 0, 0>>

\* uint64(x) of a uint32 x
Widen(x) == <<x[1], x[2], 0, 0>>

RECURSIVE AddCarry(_, _, _, _)
AddCarry(x, y, i, c) ==
    IF i > Len(x) THEN <<>>
    ELSE LET s == x[i] + y[i] + c
         IN  <<s % 65536>> \o AddCarry(x, y, i + 1, s \div 65536)

\* x + y of two values of one width, the carry out of the top limb dropped
Add(x, y) == AddCarry(x, y, 1, 0)

\* x * k of a uint32 x and a constant k < 2^15, modulo 2^32
Mul32(x, k) ==
    LET lo == x[1] * k
        hi == x[2] * k + (lo \div 65536)
    IN  <<lo % 65536, hi % 65536>>

\* x > y of two values of one width, unsigned
RECURSIVE GtFrom(_, _, _)
GtFrom(x, y, i) ==
    IF i = 0 THEN FALSE
    ELSE IF x[i] # y[i] THEN x[i] > y[i]
    ELSE GtFrom(x, y, i - 1)

Gt(x, y) == GtFrom(x, y, Len(x))

\* an int64 is negative when its top bit is set
IsNegative64(x) == x[4] >= 32768

\* an int64 that is a file offset TLC can count with (below 2^30)
IsSmall64(x) == x[4] = 0 /\ x[3] = 0 /\ x[2] < 16384
ToNat(x) == x[1] + 65536 * x[2]

\* binary.LittleEndian.Uint16(b[i:]), Uint32(b[i:]), Uint64(b[i:])
Uint16(b, i) == b[i + 1] + 256 * b[i + 2]
Uint32(b, i) == <<Uint16(b, i), Uint16(b, i + 2)>>
Uint64(b, i) == <<Uint16(b, i), Uint16(b, i + 2), Uint16(b, i + 4), Uint16(b, i + 6)>>

\* the bytes an encoder writes for these values (used to build inputs)
Put16(v) == <<v % 256, v \div 256>>
Put32(x) == Put16(x[1]) \o Put16(x[2])
Put64(x) == Put16(x[1]) \o Put16(x[2]) \o Put16(x[3]) \o Put16(x[4])

Take(s, n) == SubSeq(s, 1, IF n < Len(s) THEN n ELSE Len(s))
Drop(s, n) == SubSeq(s, n + 1, Len(s))

RECURSIVE Flatten(_)
Flatten(ss) == IF ss = <<>> THEN <<>> ELSE Head(ss) \o Flatten(Tail(ss))

-----------------------------------------------------------------------------
(* ReadAt(b, off) of an os.File, with len(b) = n: off is an int64.  A negative *)
(* offset is an error; otherwise the bytes the file holds from off are     *)
(* read, and a read of fewer than n bytes returns io.EOF.  A read of no    *)
(* bytes (n = 0) succeeds at any offset that is not negative.              *)

ReadAt(img, off, n) ==
    IF IsNegative64(off) THEN [n |-> 0, err |-> TRUE, data |-> <<>>]
    ELSE IF n = 0 THEN [n |-> 0, err |-> FALSE, data |-> <<>>]
    ELSE IF ~IsSmall64(off) \/ ToNat(off) >= Len(img)
         THEN [n |-> 0, err |-> TRUE, data |-> <<>>]
    ELSE LET o == ToNat(off)
             m == IF o + n <= Len(img) THEN n ELSE Len(img) - o
         IN  [n |-> m, err |-> m < n, data |-> SubSeq(img, o + 1, o + m)]

-----------------------------------------------------------------------------
(* readMetadataBlock and readMetadata.                                     *)

\* the test of the flag inverted: header&0x8000 == 0x8000 (a wrong variant)
IsCompressedSetBit(header) == (header \div 32768) % 2 = 1

\* compressed := header&0x8000 != 0x8000
IsCompressed(header) == (header \div 32768) % 2 = 0

\* size := header & 0x7fff
PayloadSize(header) == header % 32768

\* readMetadataBlock(r, location).  err is "none" or the failing step; reads
\* lists the ReadAt calls made, in order.
readMetadataBlock(img, location) ==
    LET h    == ReadAt(img, location, 2)
        hdrR == [off |-> location, len |-> 2]
    IN  IF h.err \/ h.n # 2
        THEN [read |-> 0, data |-> <<>>, err |-> "header", reads |-> <<hdrR>>]
        ELSE LET header == Uint16(h.data, 0)
                 size   == PayloadSize(header)
             IN  IF IsCompressed(header)
                 THEN [read |-> 0, data |-> <<>>, err |-> "compressed",
                       reads |-> <<hdrR>>]
                 ELSE LET p    == ReadAt(img, Add(location, U64(2)), size)
                          both == <<hdrR, [off |-> Add(location, U64(2)), len |-> size]>>
                      IN  IF p.err \/ p.n # size
                          THEN [read |-> 0, data |-> <<>>, err |-> "payload",
                                reads |-> both]
                          ELSE [read |-> Len(p.data) + 2, data |-> p.data,
                                err |-> "none", reads |-> both]

\* the loop of readMetadata: for len(b) < size { ... }; then b = b[:size]
RECURSIVE readMetadataLoop(_, _, _, _, _, _, _)
readMetadataLoop(img, firstBlock, blockOffset, read, b, size, nblocks) ==
    IF Len(b) < size
    THEN LET next == Add(blockOffset, U64(read))
             blk  == readMetadataBlock(img, Add(firstBlock, next))
         IN  IF blk.err # "none"
             THEN [out |-> "error", b |-> <<>>, blocks |-> nblocks + 1]
             ELSE readMetadataLoop(img, firstBlock, next, blk.read,
                                   b \o blk.data, size, nblocks + 1)
    ELSE [out |-> "ok", b |-> SubSeq(b, 1, size), blocks |-> nblocks]

\* readMetadata(r, firstBlock, initialBlockOffset, byteOffset, size), size >= 0.
\* out is "ok", "error" (an error is returned) or "panic": m[byteOffset:]
\* with byteOffset > len(m) is a run-time panic (slice bounds out of range).
readMetadata(img, firstBlock, initialBlockOffset, byteOffset, size) ==
    LET blockOffset == Widen(initialBlockOffset)
        first       == readMetadataBlock(img, Add(firstBlock, blockOffset))
    IN  IF first.err # "none"
        THEN [out |-> "error", b |-> <<>>, blocks |-> 1]
        ELSE IF byteOffset > Len(first.data)
        THEN [out |-> "panic", b |-> <<>>, blocks |-> 1]
        ELSE readMetadataLoop(img, firstBlock, blockOffset, first.read,
                              Drop(first.data, byteOffset), size, 1)


-----------------------------------------------------------------------------
(* path.Join(p, name) of Go's standard library, as main.go line 230 calls  *)
(* it: the elements joined with "/", then path.Clean.                      *)

Slash == <<47>>
Dot == <<46>>

\* Clean's step for "..": out.w--, then back to the previous "/" or to dotdot
RECURSIVE BackUp(_, _, _)
BackUp(out, w, dotdot) ==
    IF w > dotdot /\ out[w + 1] # 47 THEN BackUp(out, w - 1, dotdot) ELSE Take(out, w)

\* the end (0-based, exclusive) of the element that starts at r
RECURSIVE ElementEnd(_, _)
ElementEnd(path, r) ==
    IF r < Len(path) /\ path[r + 1] # 47 THEN ElementEnd(path, r + 1) ELSE r

RECURSIVE CleanLoop(_, _, _, _, _)
CleanLoop(path, rooted, r, out, dotdot) ==
    LET n == Len(path)
    IN  IF r >= n THEN out
        ELSE IF path[r + 1] = 47
        THEN CleanLoop(path, rooted, r + 1, out, dotdot)
        ELSE IF path[r + 1] = 46 /\ (r + 1 = n \/ path[r + 2] = 47)
        THEN CleanLoop(path, rooted, r + 1, out, dotdot)
        ELSE IF path[r + 1] = 46 /\ path[r + 2] = 46 /\ (r + 2 = n \/ path[r + 3] = 47)
        THEN IF Len(out) > dotdot
             THEN CleanLoop(path, rooted, r + 2, BackUp(out, Len(out) - 1, dotdot), dotdot)
             ELSE IF ~rooted
             THEN LET o2 == (IF Len(out) > 0 THEN out \o Slash ELSE out) \o Dot \o Dot
                  IN  CleanLoop(path, rooted, r + 2, o2, Len(o2))
             ELSE CleanLoop(path, rooted, r + 2, out, dotdot)
        ELSE LET o1 == IF (rooted /\ Len(out) # 1) \/ (~rooted /\ Len(out) # 0)
                       THEN out \o Slash ELSE out
                 e  == ElementEnd(path, r)
             IN  CleanLoop(path, rooted, e, o1 \o SubSeq(path, r + 1, e), dotdot)

Clean(path) ==
    IF path = <<>> THEN Dot
    ELSE LET rooted == path[1] = 47
             res    == CleanLoop(path, rooted, IF rooted THEN 1 ELSE 0,
                                 IF rooted THEN Slash ELSE <<>>, IF rooted THEN 1 ELSE 0)
         IN  IF res = <<>> THEN Dot ELSE res

Join(p, name) ==
    IF p = <<>> /\ name = <<>> THEN <<>>
    ELSE IF p = <<>> THEN Clean(name)
    ELSE IF name = <<>> THEN Clean(p)
    ELSE Clean(p \o Slash \o name)

-----------------------------------------------------------------------------
(* The directory table decoders.                                           *)

\* parseDirectoryHeader(b)
parseDirectoryHeader(b) ==
    IF Len(b) < dirHeaderSize
    THEN [err |-> TRUE, count |-> Zero32, startBlock |-> Zero32, inode |-> Zero32]
    ELSE [err |-> FALSE,
          count |-> Add(Uint32(b, 0), U32(1)),
          startBlock |-> Uint32(b, 4),
          inode |-> Uint32(b, 8)]

\* parseDirectoryEntry(b); the arithmetic on nameSize is that of uint16
parseDirectoryEntry(b) ==
    IF Len(b) < dirEntryMinSize
    THEN [err |-> "short", size |-> 0]
    ELSE LET offset       == Uint16(b, 0)
             inode        == Uint16(b, 2)
             entryType    == Uint16(b, 4)
             nameSize     == Uint16(b, 6)
             realNameSize == (nameSize + 1) % 65536
         IN  IF nameSize > dirNameMaxSize
             THEN [err |-> "name", size |-> 0]
             ELSE IF (realNameSize + dirEntryMinSize) % 65536 > Len(b)
             THEN [err |-> "truncated", size |-> 0]
             ELSE [err |-> "none",
                   offset |-> offset, inodeNumber |-> inode, inodeType |-> entryType,
                   name |-> SubSeq(b, 9, 8 + realNameSize),
                   size |-> (8 + realNameSize) % 65536]

\* the pointer parseDirectory appends for one entry
EntryPointer(p, header, entry) ==
    [path |-> Join(p, entry.name), block |-> header.startBlock,
     offset |-> entry.offset, inodeType |-> entry.inodeType,
     dirBlock |-> Zero32, dirOffset |-> 0, dirSize |-> 0]

\* the inner loop: for count := uint32(0); count < directoryHeader.count; count++
RECURSIVE parseEntries(_, _, _, _, _, _)
parseEntries(p, b, header, count, pos, entries) ==
    IF Gt(header.count, count)
    THEN LET entry == parseDirectoryEntry(Drop(b, pos))
         IN  IF entry.err # "none"
             THEN [err |-> entry.err, at |-> pos, pos |-> pos, entries |-> <<>>]
             ELSE parseEntries(p, b, header, Add(count, U32(1)), pos + entry.size,
                               Append(entries, EntryPointer(p, header, entry)))
    ELSE [err |-> "none", at |-> pos, pos |-> pos, entries |-> entries]

\* the guard on a header's count: directoryHeader.count+1 > maxDirEntries,
\* in uint32 arithmetic
CountGuard(header) == Gt(Add(header.count, U32(1)), U32(maxDirEntries))

\* the outer loop: for pos := 0; pos+dirHeaderSize < len(b); { ... }
RECURSIVE parseGroups(_, _, _, _)
parseGroups(p, b, pos, entries) ==
    IF pos + dirHeaderSize < Len(b)
    THEN LET header == parseDirectoryHeader(Drop(b, pos))
         IN  IF header.err
             THEN [err |-> "header", at |-> pos, entries |-> <<>>]
             ELSE IF CountGuard(header)
             THEN [err |-> "count", at |-> pos, entries |-> <<>>]
             ELSE LET r == parseEntries(p, b, header, Zero32, pos + dirHeaderSize, entries)
                  IN  IF r.err # "none"
                      THEN [err |-> r.err, at |-> r.at, entries |-> <<>>]
                      ELSE parseGroups(p, b, r.pos, r.entries)
    ELSE [err |-> "none", at |-> pos, entries |-> entries]

\* parseDirectory(p, b): err is "none" or names the check that failed, at
\* the position of the header or entry it failed on
parseDirectory(p, b) == parseGroups(p, b, 0, <<>>)

-----------------------------------------------------------------------------
(* main: the superblock check.                                             *)

\* the number of bits of a uint16 / uint32: the exponent math.Frexp returns
RECURSIVE BitLen16(_)
BitLen16(v) == IF v = 0 THEN 0 ELSE 1 + BitLen16(v \div 2)

BitLen32(x) == IF x[2] > 0 THEN 16 + BitLen16(x[2]) ELSE BitLen16(x[1])

\* uint16(math.Inf(-1)): the result of converting a float the type cannot
\* hold is implementation-dependent; the gc compiler's truncating
\* conversion leaves 0 in the low 16 bits on the 64-bit targets
Uint16OfNegInf == {0}

\* the values uint16(math.Log2(float64(blockSize))) can take.  float64 holds
\* every uint32 exactly.  For x >= 1, Log2 splits x = frac * 2^exp with
\* frac in [1/2, 1): a power of two gives exp - 1 exactly, any other x gives
\* Log(frac)*(1/Ln2) + exp, strictly between exp - 1 and exp (frac <= 1 - 2^-32
\* keeps it 3e-10 below exp), which the conversion cuts to exp - 1.  For
\* x = 0, Log2 is -Inf.
expectedLog(blockSize) ==
    IF blockSize = Zero32 THEN Uint16OfNegInf ELSE {BitLen32(blockSize) - 1}

-----------------------------------------------------------------------------
(* The inode decoders and the steps of walkTree.                           *)

\* readInodeHeader(f, offset); err stands for either log.Fatalf
readInodeHeader(img, offset) ==
    LET r == ReadAt(img, offset, inodeHeaderSize)
    IN  IF r.err \/ r.n # inodeHeaderSize
        THEN [err |-> TRUE, inodeType |-> 0, mode |-> 0, uidIdx |-> 0, gidIdx |-> 0,
              modTime |-> Zero32, index |-> Zero32]
        ELSE [err |-> FALSE,
              inodeType |-> Uint16(r.data, 0),
              mode |-> Uint16(r.data, 2),
              uidIdx |-> Uint16(r.data, 4),
              gidIdx |-> Uint16(r.data, 6),
              modTime |-> Uint32(r.data, 8),
              index |-> Uint32(r.data, 12)]

\* parseDirectoryInode(b, t): dirBlockIndex, dirSize, offset
parseDirectoryInode(b, t) ==
    IF t = basicDirectory
    THEN [dirBlockIndex |-> Uint32(b, 0), dirSize |-> Uint16(b, 8), offset |-> Uint16(b, 10)]
    ELSE IF t = extendedDirectory
    THEN [dirBlockIndex |-> Uint32(b, 8), dirSize |-> Uint16(b, 4), offset |-> Uint16(b, 18)]
    ELSE [dirBlockIndex |-> Zero32, dirSize |-> 0, offset |-> 0]

\* start := inodeTable + uint64(inode.block*(metadataSize+2)) + 2 + uint64(inode.offset)
\* the product is one of uint32 values
InodeStart(inodeTable, inode) ==
    Add(Add(Add(inodeTable, Widen(Mul32(inode.block, metadataSize + 2))), U64(2)),
        U64(inode.offset))

\* the entries visited last to first (a wrong variant)
ChildAtReversed(inodes, i) == inodes[Len(inodes) + 1 - i]

\* for _, in := range inodes: the i-th pointer visited
ChildAt(inodes, i) == inodes[i]

\* ret = append(ret, walkTree(f, in, inodeTable, directoryTable)...)
AppendResults(ret, sub) == ret \o sub

\* the frame of a call walkTree(f, inode, ...) at its first statement
NewFrame(inode) ==
    [inode |-> inode, pc |-> "enter", start |-> Zero64, headerType |-> 0,
     inodes |-> <<>>, i |-> 1, ret |-> <<inode>>]

\* lines 300-305 of a call: the header is read at start.  status is
\* "running" or how the program stopped: "fatal" is log.Fatalf.
ReadHeader(img, tables, fr) ==
    LET start  == InodeStart(tables.inodeTable, fr.inode)
        header == readInodeHeader(img, start)
        read   == [block |-> fr.inode.block, offset |-> fr.inode.offset, start |-> start]
    IN  IF header.err THEN [status |-> "fatal", frame |-> fr, read |-> read]
        ELSE [status |-> "running",
              frame |-> [fr EXCEPT !.start = Add(start, U64(inodeHeaderSize)),
                                   !.headerType = header.inodeType,
                                   !.pc = IF header.inodeType \in
                                              {basicDirectory, extendedDirectory}
                                          THEN "directory" ELSE "loop"],
              read |-> read]

\* lines 307-328 of a call on a directory: its body, its directory bytes and
\* its entries.  "panic" is the run-time panic of readMetadata.
ReadDirectory(img, tables, fr) ==
    LET body == ReadAt(img, fr.start, 20)
    IN  IF body.err \/ body.n # 20 THEN [status |-> "fatal", frame |-> fr]
        ELSE LET d     == parseDirectoryInode(body.data, fr.headerType)
                 inode == [fr.inode EXCEPT !.dirBlock = d.dirBlockIndex,
                                           !.dirOffset = d.offset,
                                           !.dirSize = d.dirSize]
                 md    == readMetadata(img, tables.directoryTable,
                                       d.dirBlockIndex, d.offset, d.dirSize)
             IN  IF md.out = "panic" THEN [status |-> "panic", frame |-> fr]
                 ELSE IF md.out = "error" THEN [status |-> "fatal", frame |-> fr]
                 ELSE LET dir == parseDirectory(inode.path, md.b)
                      IN  IF dir.err # "none" THEN [status |-> "fatal", frame |-> fr]
                          ELSE [status |-> "running",
                                frame |-> [fr EXCEPT !.inode = inode, !.pc = "loop",
                                                     !.inodes = dir.entries,
                                                     !.ret = <<inode>>]]

\* lines 333-336: the inode takes the header's type; ret holds the inode first
ReturnValue(fr) ==
    [fr.ret EXCEPT ![1] = [fr.inode EXCEPT !.inodeType = fr.headerType]]

-----------------------------------------------------------------------------
(* States in which a component is not the one running.                     *)

SbIdle == sbImage = <<>> /\ sbPc = "idle" /\ sbFields = <<>>
MIdle  == mBlocks = <<>> /\ mImage = <<>> /\ mCall = [fn |-> "none"] /\ mRes = [out |-> "none"]
DIdle  == dSrc = [kind |-> "none"] /\ dBuf = <<>> /\ dCall = [fn |-> "none"] /\ dRes = [out |-> "none"]
WIdle  == /\ wCase = "none" /\ wImage = <<>> /\ wTables = <<>> /\ wStack = <<>>
          /\ wStatus = "idle" /\ wRet = <<>> /\ wReads = <<>>

-----------------------------------------------------------------------------
(* The metadata readers on small images.  An image is written from a list  *)
(* of blocks, each with its flag and payload size, and may lose its last   *)
(* bytes.  The payload of block k holds the bytes 16k+1, 16k+2, ...        *)

MaxBlocks == 2
MaxPayload == 2
MaxTrunc == 1
MaxSize == 4

BlockShapes == [unc : BOOLEAN, size : 0..MaxPayload]
BlockLists == UNION {[1..n -> BlockShapes] : n \in 0..MaxBlocks}

PayloadOf(blocks, k) == [i \in 1..blocks[k].size |-> 16 * k + i]

EncodeBlock(blocks, k) ==
    Put16(blocks[k].size + (IF blocks[k].unc THEN 32768 ELSE 0)) \o PayloadOf(blocks, k)

EncodeBlocks(blocks) == Flatten([k \in 1..Len(blocks) |-> EncodeBlock(blocks, k)])

\* the offset of block k's header in the image
RECURSIVE BlockStart(_, _)
BlockStart(blocks, k) ==
    IF k = 1 THEN 0 ELSE BlockStart(blocks, k - 1) + 2 + blocks[k - 1].size

\* the payloads of blocks k, k+1, ... one after the other
RECURSIVE PayloadsFrom(_, _)
PayloadsFrom(blocks, k) ==
    IF k > Len(blocks) THEN <<>>
    ELSE PayloadOf(blocks, k) \o PayloadsFrom(blocks, k + 1)

InitMetadata ==
    /\ component = "metadata"
    /\ mBlocks \in BlockLists
    /\ \E t \in 0..MaxTrunc :
          LET full == EncodeBlocks(mBlocks)
          IN  /\ t <= Len(full)
              /\ mImage = SubSeq(full, 1, Len(full) - t)
    /\ mCall = [fn |-> "none"]
    /\ mRes = [out |-> "none"]
    /\ SbIdle /\ DIdle /\ WIdle

\* a call of readMetadataBlock at any location of the image
CallReadMetadataBlock ==
    /\ component = "metadata"
    /\ mCall.fn = "none"
    /\ \E loc \in 0..Len(mImage) :
          /\ mCall' = [fn |-> "readMetadataBlock", location |-> loc]
          /\ mRes' = readMetadataBlock(mImage, U64(loc))
    /\ UNCHANGED <<component, mBlocks, mImage, sbVars, dVars, wVars>>

\* a call of readMetadata that starts at one of the image's blocks
CallReadMetadata ==
    /\ component = "metadata"
    /\ mCall.fn = "none"
    /\ \E k \in 1..Len(mBlocks), byteOffset \in 0..(MaxPayload + 1), size \in 0..MaxSize :
          /\ mCall' = [fn |-> "readMetadata", block |-> k,
                       initialBlockOffset |-> BlockStart(mBlocks, k),
                       byteOffset |-> byteOffset, size |-> size]
          /\ mRes' = readMetadata(mImage, Zero64, U32(BlockStart(mBlocks, k)),
                                  byteOffset, size)
    /\ UNCHANGED <<component, mBlocks, mImage, sbVars, dVars, wVars>>

NextMetadata == CallReadMetadataBlock \/ CallReadMetadata

SpecMetadata == InitMetadata /\ [][NextMetadata]_vars

(* C2: readMetadataBlock at a location whose 2-byte header can be read:    *)
(* when bit 15 of the header is clear the call returns an error and its    *)
(* only read is that of the header; when bit 15 is set and the payload is  *)
(* wholly in the image it returns the (header & 0x7fff) payload bytes and  *)
(* bytesConsumed = 2 + that length.                                        *)
C2_BlockReaderFlagAndSize ==
    (mCall.fn = "readMetadataBlock" /\ mCall.location + 2 <= Len(mImage)) =>
        LET loc    == mCall.location
            header == mImage[loc + 1] + 256 * mImage[loc + 2]
            size   == header % 32768
        IN  /\ header < 32768 =>
                /\ mRes.err # "none"
                /\ mRes.reads = <<[off |-> U64(loc), len |-> 2]>>
            /\ (header >= 32768 /\ loc + 2 + size <= Len(mImage)) =>
                /\ mRes.err = "none"
                /\ Len(mRes.data) = size
                /\ mRes.data = SubSeq(mImage, loc + 3, loc + 2 + size)
                /\ mRes.read = 2 + size

\* a compressed block whose payload bytes follow its header in the image
C2_Witness ==
    /\ mCall.fn = "readMetadataBlock"
    /\ mCall.location + 2 < Len(mImage)
    /\ mImage[mCall.location + 1] + 256 * mImage[mCall.location + 2] \in 1..32767
    /\ mRes.err = "compressed"

(* C1: a call of readMetadata either returns an error or returns exactly   *)
(* size bytes, the first block's payload from byteOffset on followed by    *)
(* the payloads of the blocks after it, cut to size; it fails in no other  *)
(* way.                                                                    *)
C1_StreamReaderExact ==
    mCall.fn = "readMetadata" =>
        /\ mRes.out \in {"ok", "error"}
        /\ mRes.out = "ok" =>
              LET stream == Drop(PayloadOf(mBlocks, mCall.block), mCall.byteOffset)
                            \o PayloadsFrom(mBlocks, mCall.block + 1)
              IN  /\ Len(mRes.b) = mCall.size
                  /\ mRes.b = Take(stream, mCall.size)

\* what does hold: a call that returns (with or without an error) obeys C1
C1_ExactWhenItReturns ==
    (mCall.fn = "readMetadata" /\ mRes.out = "ok") =>
        LET stream == Drop(PayloadOf(mBlocks, mCall.block), mCall.byteOffset)
                      \o PayloadsFrom(mBlocks, mCall.block + 1)
        IN  /\ Len(mRes.b) = mCall.size
            /\ mRes.b = Take(stream, mCall.size)

\* a read that crosses from one block into the next
C1_TwoBlockRead ==
    /\ mCall.fn = "readMetadata" /\ mRes.out = "ok" /\ mRes.blocks = 2
    /\ mCall.byteOffset > 0 /\ mCall.size > MaxPayload - mCall.byteOffset

-----------------------------------------------------------------------------
(* The directory decoders on small buffers.  A directory buffer is written *)
(* from one or two groups, each a header and the entries for a list of     *)
(* names, and may end in padding; the first header's stored count is the   *)
(* right one or one picked near the limits.  An entry buffer is one entry  *)
(* with a chosen name-size field, cut to a chosen length.                  *)

MaxEntries == 2

NameA == <<97>>
NameB == <<98>>
NameDot == <<46>>
NameDotDot == <<46, 46>>
NameWithSlash == <<97, 47, 98>>
Names == {NameA, NameB, NameDot, NameDotDot, NameWithSlash}
NameLists == UNION {[1..n -> Names] : n \in 0..MaxEntries}

PathRoot == <<47>>
PathB == <<47, 98>>
PathBC == <<47, 98, 47, 99>>
Owners == {PathRoot, PathB, PathBC}

\* stored counts: 0, 1, 254, 255, 256, 2^32 - 2, 2^32 - 1
StoredCounts == {<<0, 0>>, <<1, 0>>, <<254, 0>>, <<255, 0>>, <<256, 0>>,
                 <<65534, 65535>>, <<65535, 65535>>}
Paddings == {0, 3}

EncodeEntry(offset, inode, type, nameSizeField, nameBytes) ==
    Put16(offset) \o Put16(inode) \o Put16(type) \o Put16(nameSizeField) \o nameBytes

EncodeHeader(stored, startBlock, inode) ==
    Put32(stored) \o Put32(startBlock) \o Put32(inode)

EncodeGroup(g) ==
    EncodeHeader(g.stored, U32(0), U32(1))
    \o Flatten([k \in 1..Len(g.names) |->
                  EncodeEntry(32 * k, k, 2, Len(g.names[k]) - 1, g.names[k])])

EncodeDirectory(src) ==
    Flatten([k \in 1..Len(src.groups) |-> EncodeGroup(src.groups[k])])
    \o [i \in 1..src.pad |-> 0]

\* a group whose stored count is that of its names
RightGroup(names) == [stored |-> U32(Len(names) - 1), names |-> names]

DirectorySources ==
    {[kind |-> "directory", groups |-> <<[stored |-> c, names |-> ns]>>, pad |-> t] :
        c \in StoredCounts, ns \in NameLists, t \in Paddings}
    \cup
    {[kind |-> "directory", groups |-> <<RightGroup(ns), RightGroup(<<n2>>)>>, pad |-> t] :
        ns \in NameLists \ {<<>>}, n2 \in Names, t \in Paddings}

NameSizeFields == {0, 1, 2, 255, 256, 257, 65535}
EntryLengths == {0, 7, 8, 9, 10, 11, 264, 265, 266}

EntrySources ==
    {[kind |-> "entry", nameSize |-> f, length |-> l] :
        f \in NameSizeFields, l \in EntryLengths}

EncodeEntryBuffer(src) ==
    Take(EncodeEntry(5, 7, 2, src.nameSize, [i \in 1..258 |-> 97 + (i % 26)]), src.length)

\* the names written into a directory buffer, in storage order
NamesOf(src) == Flatten([k \in 1..Len(src.groups) |-> src.groups[k].names])

InitDirectory ==
    /\ component = "directory"
    /\ dSrc \in DirectorySources \cup EntrySources
    /\ dBuf = IF dSrc.kind = "entry" THEN EncodeEntryBuffer(dSrc) ELSE EncodeDirectory(dSrc)
    /\ dCall = [fn |-> "none"]
    /\ dRes = [out |-> "none"]
    /\ SbIdle /\ MIdle /\ WIdle

CallParseDirectoryEntry ==
    /\ component = "directory"
    /\ dCall.fn = "none"
    /\ dSrc.kind = "entry"
    /\ dCall' = [fn |-> "parseDirectoryEntry"]
    /\ dRes' = parseDirectoryEntry(dBuf)
    /\ UNCHANGED <<component, dSrc, dBuf, sbVars, mVars, wVars>>

CallParseDirectory ==
    /\ component = "directory"
    /\ dCall.fn = "none"
    /\ dSrc.kind = "directory"
    /\ \E p \in Owners :
          /\ dCall' = [fn |-> "parseDirectory", p |-> p]
          /\ dRes' = parseDirectory(p, dBuf)
    /\ UNCHANGED <<component, dSrc, dBuf, sbVars, mVars, wVars>>

NextDirectory == CallParseDirectoryEntry \/ CallParseDirectory

SpecDirectory == InitDirectory /\ [][NextDirectory]_vars

(* C5: parseDirectory on a buffer whose first header is decoded: the       *)
(* decode fails when that header's entry count, stored + 1 as an integer,  *)
(* exceeds 256, and the count guard does not reject an entry count of 1 to *)
(* 256.                                                                    *)
C5_CountGuard ==
    (dCall.fn = "parseDirectory" /\ Len(dBuf) > dirHeaderSize) =>
        LET lo == dBuf[1] + 256 * dBuf[2]
            hi == dBuf[3] + 256 * dBuf[4]
        IN  /\ (hi > 0 \/ lo + 1 > 256) => dRes.err # "none"
            /\ (hi = 0 /\ lo + 1 <= 256) => ~(dRes.err = "count" /\ dRes.at = 0)

(* C6: parseDirectoryEntry on a buffer of at least 8 bytes fails when the  *)
(* name length, the stored field + 1, exceeds 256 or when 8 + name length  *)
(* exceeds the buffer; otherwise it returns the name bytes 8..8+length-1   *)
(* and reports 8 + length bytes consumed.                                  *)
C6_EntryBounds ==
    (dCall.fn = "parseDirectoryEntry" /\ Len(dBuf) >= 8) =>
        LET nameLength == dBuf[7] + 256 * dBuf[8] + 1
        IN  IF nameLength > 256 \/ 8 + nameLength > Len(dBuf)
            THEN dRes.err # "none"
            ELSE /\ dRes.err = "none"
                 /\ dRes.name = SubSeq(dBuf, 9, 8 + nameLength)
                 /\ dRes.size = 8 + nameLength

\* p is a proper prefix of q
IsProperPrefix(p, q) == Len(p) < Len(q) /\ SubSeq(q, 1, Len(p)) = p

\* the owner path followed by the name as one segment, nothing rewritten
Verbatim(p, name) == (IF p[Len(p)] = 47 THEN p ELSE p \o <<47>>) \o name

(* C8: every entry parseDirectory produces has the owner path followed by  *)
(* the decoded name, verbatim, as its path, so that the owner path is a    *)
(* proper prefix of it.                                                    *)
C8_PathIsOwnerPlusName ==
    (dCall.fn = "parseDirectory" /\ dRes.err = "none") =>
        \A i \in 1..Len(dRes.entries) :
            /\ dRes.entries[i].path = Verbatim(dCall.p, NamesOf(dSrc)[i])
            /\ IsProperPrefix(dCall.p, dRes.entries[i].path)

\* what does hold: C8 for the names that are neither ".", ".." nor hold "/"
C8_PlainNames ==
    (dCall.fn = "parseDirectory" /\ dRes.err = "none") =>
        \A i \in 1..Len(dRes.entries) :
            NamesOf(dSrc)[i] \in {NameA, NameB} =>
                dRes.entries[i].path = Verbatim(dCall.p, NamesOf(dSrc)[i])

-----------------------------------------------------------------------------
(* main's superblock check on images whose first 96 bytes are written from *)
(* a magic, a block size and a block-size log2; the other fields hold      *)
(* fixed values.  An image may be one byte short.                          *)

\* the magic, and the magic with one byte changed in either half
Magics == {<<29544, 29553>>, <<29545, 29553>>, <<29544, 29552>>, <<0, 0>>}

\* 0, 1, 2, 3, 4, 4096, 131071, 131072, 131073, 2^31, 2^32 - 1
BlockSizes == {<<0, 0>>, <<1, 0>>, <<2, 0>>, <<3, 0>>, <<4, 0>>, <<4096, 0>>,
               <<65535, 1>>, <<0, 2>>, <<1, 2>>, <<0, 32768>>, <<65535, 65535>>}
BlockLogs == {0, 1, 2, 12, 16, 17, 18, 31, 32, 65535}
ShortBy == {0, 1}

EncodeSuperblock(magic, blockSize, blockLog) ==
    Put32(magic) \o Put32(U32(4)) \o Put32(U32(1000)) \o Put32(blockSize)
    \o Put32(U32(1)) \o Put16(1) \o Put16(blockLog) \o Put16(192) \o Put16(1)
    \o Put16(4) \o Put16(0) \o Put64(U64(32)) \o Put64(U64(4096)) \o Put64(U64(400))
    \o Put64(U64(0)) \o Put64(U64(96)) \o Put64(U64(300)) \o Put64(U64(380))
    \o Put64(U64(390))

InitSuperblock ==
    /\ component = "superblock"
    /\ \E magic \in Magics, blockSize \in BlockSizes, blockLog \in BlockLogs, t \in ShortBy :
          sbImage = Take(EncodeSuperblock(magic, blockSize, blockLog), superblockSize - t)
    /\ sbPc = "start"
    /\ sbFields = <<>>
    /\ MIdle /\ DIdle /\ WIdle

\* b := make([]byte, superblockSize); read, err := f.ReadAt(b, 0)
ReadSuperblock ==
    /\ component = "superblock" /\ sbPc = "start"
    /\ LET r == ReadAt(sbImage, Zero64, superblockSize)
       IN  sbPc' = IF r.err \/ r.n # superblockSize THEN "badRead" ELSE "read"
    /\ UNCHANGED <<component, sbImage, sbFields, mVars, dVars, wVars>>

\* readMagic := ...; if readMagic != magicByte { log.Fatalf(...) }
CheckMagic ==
    /\ component = "superblock" /\ sbPc = "read"
    /\ LET readMagic == Uint32(sbImage, 0)
       IN  sbPc' = IF readMagic # magicByte THEN "badMagic" ELSE "magicOk"
    /\ UNCHANGED <<component, sbImage, sbFields, mVars, dVars, wVars>>

\* lines 370-380: six fields are decoded, then the two logs are compared
CheckBlockLog ==
    /\ component = "superblock" /\ sbPc = "magicOk"
    /\ LET blockSize == Uint32(sbImage, 12)
           blockLog  == Uint16(sbImage, 22)
       IN  /\ sbFields' = [inodeCount |-> Uint32(sbImage, 4),
                           modTime |-> Uint32(sbImage, 8),
                           blockSize |-> blockSize,
                           fragCount |-> Uint32(sbImage, 16),
                           compression |-> Uint16(sbImage, 20),
                           blockLog |-> blockLog]
           /\ \E e \in expectedLog(blockSize) :
                 sbPc' = IF e # blockLog THEN "badLog" ELSE "logOk"
    /\ UNCHANGED <<component, sbImage, mVars, dVars, wVars>>

\* lines 381-393: the remaining fields
DecodeRest ==
    /\ component = "superblock" /\ sbPc = "logOk"
    /\ sbFields' = sbFields @@
                   [flags |-> Uint16(sbImage, 24), idCount |-> Uint16(sbImage, 26),
                    major |-> Uint16(sbImage, 28), minor |-> Uint16(sbImage, 30),
                    rootInodeRef |-> Uint64(sbImage, 32), size |-> Uint64(sbImage, 40),
                    idTableStart |-> Uint64(sbImage, 48),
                    xattrTableStart |-> Uint64(sbImage, 56),
                    inodeTableStart |-> Uint64(sbImage, 64),
                    dirTableStart |-> Uint64(sbImage, 72),
                    fragTableStart |-> Uint64(sbImage, 80),
                    exportTableStart |-> Uint64(sbImage, 88)]
    /\ sbPc' = "accepted"
    /\ UNCHANGED <<component, sbImage, mVars, dVars, wVars>>

NextSuperblock == ReadSuperblock \/ CheckMagic \/ CheckBlockLog \/ DecodeRest

SpecSuperblock == InitSuperblock /\ [][NextSuperblock]_vars

\* 2^k <= x < 2^(k+1) for a uint32 x given by its 16-bit halves: k is the
\* integer base-2 logarithm of x.  No k is that of x = 0.
IsFloorLog2(k, lo, hi) ==
    /\ k \in 0..31
    /\ IF k < 16
       THEN hi = 0 /\ 2^k <= lo /\ (k < 15 => lo < 2^(k + 1))
       ELSE 2^(k - 16) <= hi /\ (k < 31 => hi < 2^(k - 15))

\* the magic bytes "hsqs"
MagicBytes == <<104, 115, 113, 115>>

(* C4: a 96-byte superblock is accepted exactly when its magic is          *)
(* 0x73717368 and its log2 field is floor(log2(block size)); a wrong magic *)
(* is rejected before any other field is decoded.                          *)
C4_SuperblockAcceptedExactlyWhen ==
    LET magicOk == SubSeq(sbImage, 1, 4) = MagicBytes
        logOk   == IsFloorLog2(sbImage[23] + 256 * sbImage[24],
                               sbImage[13] + 256 * sbImage[14],
                               sbImage[15] + 256 * sbImage[16])
    IN  /\ sbPc = "badMagic" => (~magicOk /\ sbFields = <<>>)
        /\ sbPc = "badLog" => (magicOk /\ ~logOk)
        /\ sbPc \in {"logOk", "accepted"} => (magicOk /\ logOk)
        /\ sbPc = "magicOk" => magicOk

\* what does hold: C4 for every block size but 0
C4_ForPositiveBlockSizes ==
    (sbPc \notin {"idle", "start", "badRead"} /\ Uint32(sbImage, 12) # Zero32) =>
        C4_SuperblockAcceptedExactlyWhen

-----------------------------------------------------------------------------
(* walkTree on small images.  An image is written from a table of nodes:   *)
(* node 1 is the root; a node has an inode type and, for a directory, its  *)
(* entries in storage order, each a name, the node it refers to and the    *)
(* inode-table block its header gives.  The image holds 4 leading bytes,   *)
(* the inode table (one metadata block; a directory inode is followed by   *)
(* its body) and the directory table (one metadata block, or two when the  *)
(* case splits it), which ends in 3 spare bytes since a directory inode's  *)
(* size field is 3 more than its listing.                                  *)

MaxDepth == 5

File(t) == [type |-> t, kids |-> <<>>]
Dir(t, kids) == [type |-> t, kids |-> kids]
Kid(name, node) == [name |-> name, node |-> node, block |-> Zero32]
FarKid(name, node, block) == [name |-> name, node |-> node, block |-> block]

NameC == <<99>>
NameX == <<120>>
NameY == <<121>>
NameZ == <<122>>

\* root {a: file, b: directory {c: file}}
ExampleNodes ==
    <<Dir(1, <<Kid(NameA, 2), Kid(NameB, 3)>>), File(2), Dir(1, <<Kid(NameC, 4)>>), File(2)>>

Cases ==
    [example  |-> [nodes |-> ExampleNodes, perGroup |-> FALSE, split |-> 0],
     \* one header for each entry
     groups   |-> [nodes |-> ExampleNodes, perGroup |-> TRUE, split |-> 0],
     \* the directory table in two blocks, the root's listing across both
     split    |-> [nodes |-> ExampleNodes, perGroup |-> FALSE, split |-> 20],
     \* root {z: file, b: directory {y: file, x: symlink}, a: file}
     unsorted |-> [nodes |-> <<Dir(1, <<Kid(NameZ, 2), Kid(NameB, 3), Kid(NameA, 6)>>),
                               File(2), Dir(1, <<Kid(NameY, 4), Kid(NameX, 5)>>),
                               File(2), File(3), File(9)>>,
                   perGroup |-> FALSE, split |-> 0],
     \* root {b: extended directory {c: directory {a: file}, x: directory {}}}
     deep     |-> [nodes |-> <<Dir(1, <<Kid(NameB, 2)>>),
                               Dir(8, <<Kid(NameC, 3), Kid(NameX, 5)>>),
                               Dir(1, <<Kid(NameA, 4)>>), File(2), Dir(1, <<>>)>>,
                   perGroup |-> FALSE, split |-> 0],
     \* root {}
     empty    |-> [nodes |-> <<Dir(1, <<>>)>>, perGroup |-> FALSE, split |-> 0],
     \* root {a: type 0, b: directory {c: type 15}}
     badtype  |-> [nodes |-> <<Dir(1, <<Kid(NameA, 2), Kid(NameB, 3)>>), File(0),
                               Dir(1, <<Kid(NameC, 4)>>), File(15)>>,
                   perGroup |-> FALSE, split |-> 0],
     \* root {a: file, b: an entry that refers to the root's own inode}
     cycle    |-> [nodes |-> <<Dir(1, <<Kid(NameA, 2), Kid(NameB, 1)>>), File(2)>>,
                   perGroup |-> FALSE, split |-> 0],
     \* root {b: directory {c: an entry that refers to the root's inode}}
     ancestor |-> [nodes |-> <<Dir(1, <<Kid(NameB, 2)>>), Dir(1, <<Kid(NameC, 1)>>)>>,
                   perGroup |-> FALSE, split |-> 0],
     \* root {a: file, x: an entry whose header gives block 524161}
     farblock |-> [nodes |-> <<Dir(1, <<Kid(NameA, 2), FarKid(NameX, 2, <<65409, 7>>)>>),
                               File(2)>>,
                   perGroup |-> TRUE, split |-> 0],
     \* root {a: file, x: an entry whose header gives block 2^31}
     alias    |-> [nodes |-> <<Dir(1, <<Kid(NameA, 2), FarKid(NameX, 2, <<0, 32768>>)>>),
                               File(2)>>,
                   perGroup |-> TRUE, split |-> 0],
     \* the example's image without its last 40 bytes
     cut      |-> [nodes |-> ExampleNodes, perGroup |-> FALSE, split |-> 0]]

CaseNames == DOMAIN Cases

IsDir(node) == node.type \in {1, 8}
InodeSize(node) == IF node.type = 8 THEN 40 ELSE 32

RECURSIVE InodeOffset(_, _)
InodeOffset(nodes, k) ==
    IF k = 1 THEN 0 ELSE InodeOffset(nodes, k - 1) + InodeSize(nodes[k - 1])

EncodeKid(nodes, kid) ==
    EncodeEntry(InodeOffset(nodes, kid.node), kid.node, nodes[kid.node].type,
                Len(kid.name) - 1, kid.name)

Listing(c, d) ==
    LET kids == c.nodes[d].kids
    IN  IF ~IsDir(c.nodes[d]) \/ kids = <<>> THEN <<>>
        ELSE IF c.perGroup
        THEN Flatten([j \in 1..Len(kids) |->
                        EncodeHeader(U32(0), kids[j].block, U32(d))
                        \o EncodeKid(c.nodes, kids[j])])
        ELSE EncodeHeader(U32(Len(kids) - 1), kids[1].block, U32(d))
             \o Flatten([j \in 1..Len(kids) |-> EncodeKid(c.nodes, kids[j])])

RECURSIVE ListingOffset(_, _)
ListingOffset(c, d) ==
    IF d = 1 THEN 0 ELSE ListingOffset(c, d - 1) + Len(Listing(c, d - 1))

EncodeInode(c, k) ==
    LET node == c.nodes[k]
        off  == ListingOffset(c, k)
        far  == c.split > 0 /\ off >= c.split
        blk  == IF far THEN U32(2 + c.split) ELSE U32(0)
        rel  == IF far THEN off - c.split ELSE off
        size == Len(Listing(c, k)) + 3
        head == Put16(node.type) \o Put16(493) \o Put16(0) \o Put16(0)
                \o Put32(U32(1000)) \o Put32(U32(k))
    IN  IF node.type = 1
        THEN head \o Put32(blk) \o Put32(U32(2)) \o Put16(size) \o Put16(rel)
             \o Put32(U32(1))
        ELSE IF node.type = 8
        THEN head \o Put32(U32(2)) \o Put32(U32(size)) \o Put32(blk) \o Put32(U32(1))
             \o Put16(0) \o Put16(rel) \o Put32(<<65535, 65535>>)
        ELSE head \o [i \in 1..16 |-> 0]

MetadataBlock(payload) == Put16(32768 + Len(payload)) \o payload

EncodeImage(c) ==
    LET inodes   == Flatten([k \in 1..Len(c.nodes) |-> EncodeInode(c, k)])
        listings == Flatten([k \in 1..Len(c.nodes) |-> Listing(c, k)]) \o <<0, 0, 0>>
    IN  <<0, 0, 0, 0>> \o MetadataBlock(inodes)
        \o (IF c.split = 0 THEN MetadataBlock(listings)
            ELSE MetadataBlock(Take(listings, c.split))
                 \o MetadataBlock(Drop(listings, c.split)))

RECURSIVE InodeBytes(_, _)
InodeBytes(nodes, k) == IF k = 0 THEN 0 ELSE InodeBytes(nodes, k - 1) + InodeSize(nodes[k])

\* the pointer main passes for the root: path "/", block 0, offset 0
RootPointer ==
    [path |-> PathRoot, inodeType |-> basicDirectory, block |-> Zero32, offset |-> 0,
     dirBlock |-> Zero32, dirOffset |-> 0, dirSize |-> 0]

InitWalk ==
    /\ component = "walk"
    /\ wCase \in CaseNames
    /\ LET img == EncodeImage(Cases[wCase])
       IN  wImage = IF wCase = "cut" THEN Take(img, Len(img) - 40) ELSE img
    /\ wTables = [inodeTable |-> U64(4),
                  directoryTable |-> U64(4 + 2 + InodeBytes(Cases[wCase].nodes,
                                                           Len(Cases[wCase].nodes)))]
    /\ wStack = <<NewFrame(RootPointer)>>
    /\ wStatus = "running"
    /\ wRet = <<>>
    /\ wReads = <<>>
    /\ SbIdle /\ MIdle /\ DIdle

Top == wStack[Len(wStack)]

\* a call of walkTree reads its inode's header
WalkReadHeader ==
    /\ component = "walk" /\ wStatus = "running"
    /\ wStack # <<>> /\ Top.pc = "enter"
    /\ LET r == ReadHeader(wImage, wTables, Top)
       IN  /\ wStatus' = r.status
           /\ wStack' = [wStack EXCEPT ![Len(wStack)] = r.frame]
           /\ wReads' = Append(wReads, r.read)
    /\ UNCHANGED <<component, wCase, wImage, wTables, wRet, sbVars, mVars, dVars>>

\* a call on a directory reads and decodes its entries
WalkReadDirectory ==
    /\ component = "walk" /\ wStatus = "running"
    /\ wStack # <<>> /\ Top.pc = "directory"
    /\ LET r == ReadDirectory(wImage, wTables, Top)
       IN  /\ wStatus' = r.status
           /\ wStack' = [wStack EXCEPT ![Len(wStack)] = r.frame]
    /\ UNCHANGED <<component, wCase, wImage, wTables, wRet, wReads, sbVars, mVars, dVars>>

\* the loop calls walkTree for its next entry
WalkCall ==
    /\ component = "walk" /\ wStatus = "running"
    /\ wStack # <<>> /\ Top.pc = "loop" /\ Top.i <= Len(Top.inodes)
    /\ Len(wStack) < MaxDepth
    /\ wStack' = Append(wStack, NewFrame(ChildAt(Top.inodes, Top.i)))
    /\ UNCHANGED <<component, wCase, wImage, wTables, wStatus, wRet, wReads,
                   sbVars, mVars, dVars>>

\* the loop is over: the call returns its list to its caller
WalkReturn ==
    /\ component = "walk" /\ wStatus = "running"
    /\ wStack # <<>> /\ Top.pc = "loop" /\ Top.i > Len(Top.inodes)
    /\ IF Len(wStack) = 1
       THEN /\ wStatus' = "done"
            /\ wRet' = ReturnValue(Top)
            /\ wStack' = <<>>
       ELSE LET caller == wStack[Len(wStack) - 1]
            IN  /\ wStack' = Append(SubSeq(wStack, 1, Len(wStack) - 2),
                                    [caller EXCEPT !.ret = AppendResults(@, ReturnValue(Top)),
                                                   !.i = @ + 1])
                /\ UNCHANGED <<wStatus, wRet>>
    /\ UNCHANGED <<component, wCase, wImage, wTables, wReads, sbVars, mVars, dVars>>

NextWalk == WalkReadHeader \/ WalkReadDirectory \/ WalkCall \/ WalkReturn

SpecWalk == InitWalk /\ [][NextWalk]_vars

\* the paths of a node table in pre-order: a node, then each entry's subtree
\* in storage order
RECURSIVE PreOrder(_, _, _)
PreOrder(nodes, k, path) ==
    <<path>> \o Flatten([j \in 1..Len(nodes[k].kids) |->
                           PreOrder(nodes, nodes[k].kids[j].node,
                                    Verbatim(path, nodes[k].kids[j].name))])

PathsOf(ret) == [i \in 1..Len(ret) |-> ret[i].path]

(* C3: the list walkTree returns holds the reachable nodes in pre-order:   *)
(* the node visited first, a directory before its descendants, one entry's *)
(* descendants before the next entry, entries in storage order.            *)
C3_PreOrder ==
    wStatus = "done" => PathsOf(wRet) = PreOrder(Cases[wCase].nodes, 1, PathRoot)

\* the walk of root {z, b {y, x}, a}, whose entries are not stored sorted,
\* has returned
C3_Witness ==
    /\ wStatus = "done" /\ wCase = "unsorted"
    /\ PathsOf(wRet) = <<PathRoot, <<47, 122>>, PathB, <<47, 98, 47, 121>>,
                         <<47, 98, 47, 120>>, <<47, 97>>>>

\* the example of the claim: ["/", "/a", "/b", "/b/c"]
C3_Example ==
    (wStatus = "done" /\ wCase \in {"example", "groups", "split"}) =>
        PathsOf(wRet) = <<PathRoot, <<47, 97>>, PathB, PathBC>>

(* C7: every node walkTree returns has a type tag among the 14 defined     *)
(* kinds: a header with another type makes the walk fail.                  *)
C7_OnlyDefinedTypes ==
    wStatus = "done" => \A i \in 1..Len(wRet) : wRet[i].inodeType \in 1..14

(* C9: the walk terminates, its recursion bounded, also on an image in     *)
(* which an entry refers to its own directory or to an ancestor: no inode  *)
(* is being visited by two calls of the stack at once.                     *)
C9_NoInodeOnStackTwice ==
    \A i, j \in 1..Len(wStack) :
        i < j => \/ wStack[i].inode.block # wStack[j].inode.block
                 \/ wStack[i].inode.offset # wStack[j].inode.offset

\* inodeTable + block * (8192 + 2) + 2 + offset, the product not cut to 32 bits
TrueInodeStart(inodeTable, block, offset) ==
    LET lo  == block[1] * 8194
        mid == block[2] * 8194 + (lo \div 65536)
    IN  Add(Add(Add(inodeTable, <<lo % 65536, mid % 65536, mid \div 65536, 0>>), U64(2)),
            U64(offset))

(* C10: every inode header is read at inodeTable + block * (8192 + 2) + 2  *)
(* + offset, computed as integers, with no 32-bit wraparound.              *)
C10_HeaderLocation ==
    \A i \in 1..Len(wReads) :
        wReads[i].start = TrueInodeStart(wTables.inodeTable, wReads[i].block,
                                         wReads[i].offset)

\* what does hold: C10 for the blocks whose product fits in 32 bits
C10_ForNearBlocks ==
    \A i \in 1..Len(wReads) :
        wReads[i].block[2] < 7 =>
            wReads[i].start = TrueInodeStart(wTables.inodeTable, wReads[i].block,
                                             wReads[i].offset)

-----------------------------------------------------------------------------
(* The whole model: a behaviour runs one of the four components.           *)

Init == InitSuperblock \/ InitMetadata \/ InitDirectory \/ InitWalk

Next == NextSuperblock \/ NextMetadata \/ NextDirectory \/ NextWalk

Spec == Init /\ [][Next]_vars

=============================================================================
